---- MODULE Spec2Model ----
(***************************************************************************)
(* Model of the 2D rigid-body engine of src/src/main.rs: ConvexBody,       *)
(* Engine (add_body, tick), the SAT collision check, partition_terrain and *)
(* the key-event handling of main.                                         *)
(*                                                                         *)
(* f64 values are modelled as exact rationals plus the IEEE-754 specials   *)
(* (+inf, -inf, NaN) and the two constants f64::MAX / f64::MIN.  The       *)
(* masses, forces, gravities and time steps of the specifications are      *)
(* dyadic rationals of small magnitude, for which the f64 arithmetic of    *)
(* the integration is exact; the rounding of f64 in project() is not       *)
(* modelled.  Negative zero is not represented: the only place its sign    *)
(* is observable is the sign of the infinite gradient -1.0/a, which        *)
(* project() discards (is_infinite).                                       *)
(***************************************************************************)
EXTENDS Integers, Sequences, FiniteSets, TLC

VARIABLES bodies, ga, collisions, hist, nticks, nforces,
          twin, held,
          shape1, shape2, result,
          terrain, polygons, pc

vars == <<bodies, ga, collisions, hist, nticks, nforces, twin, held,
          shape1, shape2, result, terrain, polygons, pc>>

engineVars == <<bodies, ga, collisions, hist, nticks, nforces, twin, held>>
satVars == <<shape1, shape2, result>>
terrainVars == <<terrain, polygons>>

(***************************************************************************)
(* f64                                                                     *)
(***************************************************************************)
Abs(n) == IF n < 0 THEN -n ELSE n

Sgn(n) == IF n < 0 THEN -1 ELSE IF n > 0 THEN 1 ELSE 0

RECURSIVE GCD(_, _)
GCD(a, b) == IF b = 0 THEN a ELSE GCD(b, a % b)

\* the finite value n/d (d # 0), in lowest terms with a positive denominator
R(n, d) ==
    LET g == GCD(Abs(n), Abs(d))
    IN  [k |-> "fin", n |-> (Sgn(d) * n) \div g, d |-> Abs(d) \div g]

ZERO == R(0, 1)
INFINITY == [k |-> "inf", n |-> 1, d |-> 0]
NEG_INFINITY == [k |-> "inf", n |-> -1, d |-> 0]
NAN == [k |-> "nan", n |-> 0, d |-> 0]
F64_MAX == [k |-> "max", n |-> 1, d |-> 0]
F64_MIN == [k |-> "max", n |-> -1, d |-> 0]

Inf(sign) == IF sign < 0 THEN NEG_INFINITY ELSE INFINITY

is_nan(x) == x.k = "nan"

is_infinite(x) == x.k = "inf"

FNeg(x) == [x EXCEPT !.n = -x.n]

FAdd(x, y) ==
    IF is_nan(x) \/ is_nan(y) THEN NAN
    ELSE IF is_infinite(x) /\ is_infinite(y)
         THEN IF x.n = y.n THEN x ELSE NAN
    ELSE IF is_infinite(x) THEN x
    ELSE IF is_infinite(y) THEN y
    ELSE R(x.n * y.d + y.n * x.d, x.d * y.d)

FSub(x, y) == FAdd(x, FNeg(y))

FMul(x, y) ==
    IF is_nan(x) \/ is_nan(y) THEN NAN
    ELSE IF is_infinite(x) \/ is_infinite(y)
         THEN IF x.n = 0 \/ y.n = 0 THEN NAN ELSE Inf(Sgn(x.n) * Sgn(y.n))
    ELSE R(x.n * y.n, x.d * y.d)

\* x / y; a zero divisor is +0.0, so n/0 is an infinity of n's sign and
\* 0/0 is NaN
FDiv(x, y) ==
    IF is_nan(x) \/ is_nan(y) THEN NAN
    ELSE IF is_infinite(x)
         THEN IF is_infinite(y) THEN NAN
              ELSE Inf(x.n * (IF y.n < 0 THEN -1 ELSE 1))
    ELSE IF is_infinite(y) THEN ZERO
    ELSE IF y.n = 0
         THEN IF x.n = 0 THEN NAN ELSE Inf(x.n)
    ELSE R(x.n * y.d, x.d * y.n)

\* position of a non-NaN value in the order -inf < f64::MIN < finite < f64::MAX < +inf
Rank(x) ==
    CASE x.k = "inf" -> IF x.n < 0 THEN 0 ELSE 4
      [] x.k = "max" -> IF x.n < 0 THEN 1 ELSE 3
      [] OTHER -> 2

FLt(x, y) ==
    /\ ~is_nan(x)
    /\ ~is_nan(y)
    /\ \/ Rank(x) < Rank(y)
       \/ x.k = "fin" /\ y.k = "fin" /\ x.n * y.d < y.n * x.d

\* x >= y (false when either is NaN)
FGe(x, y) == ~is_nan(x) /\ ~is_nan(y) /\ ~FLt(x, y)

\* f64::min and f64::max: a NaN operand is ignored
FMin(x, y) == IF is_nan(x) THEN y ELSE IF is_nan(y) THEN x
              ELSE IF FLt(y, x) THEN y ELSE x

FMax(x, y) == IF is_nan(x) THEN y ELSE IF is_nan(y) THEN x
              ELSE IF FLt(x, y) THEN y ELSE x

\* line_gradient.abs() < f64::EPSILON.  Every non-zero finite gradient of
\* the model is a ratio of two small integers, far above 2^-52, so the test
\* selects exactly the zero gradient.
abs_lt_EPSILON(x) == x.k = "fin" /\ x.n = 0

(***************************************************************************)
(* Position, Vector                                                        *)
(***************************************************************************)
pos(x, y) == [x |-> x, y |-> y]

v(x, y) == [x |-> x, y |-> y]

\* the position with integer coordinates (x, y)
ipos(x, y) == pos(R(x, 1), R(y, 1))

(***************************************************************************)
(* Projection and the separating-axis check                                *)
(***************************************************************************)
project(position, line_gradient) ==
    LET p == position
        a == line_gradient
    IN  IF is_infinite(line_gradient) THEN pos(ZERO, p.y)
        ELSE IF abs_lt_EPSILON(line_gradient) THEN pos(p.x, ZERO)
        ELSE LET a_orth == FDiv(R(-1, 1), a)
                 b_orth == FSub(p.y, FMul(a_orth, p.x))
                 projected_x == FDiv(FNeg(b_orth), FSub(a_orth, a))
                 projected_y == FMul(a, projected_x)
             IN  pos(projected_x, projected_y)

RECURSIVE fold_min(_, _)
fold_min(acc, ps) ==
    IF ps = <<>> THEN acc
    ELSE fold_min(pos(FMin(acc.x, Head(ps).x), FMin(acc.y, Head(ps).y)), Tail(ps))

RECURSIVE fold_max(_, _)
fold_max(acc, ps) ==
    IF ps = <<>> THEN acc
    ELSE fold_max(pos(FMax(acc.x, Head(ps).x), FMax(acc.y, Head(ps).y)), Tail(ps))

\* the closure of check_for_separating_axis for the edge (p1, p2) of shape1:
\* TRUE iff the projections of the two shapes on the edge's normal overlap
axis_overlap(s1, s2, p1, p2) ==
    LET a == FDiv(FSub(p1.y, p2.y), FSub(p1.x, p2.x))
        a_orth == FDiv(R(-1, 1), a)
        shape1_projections == [i \in 1..Len(s1) |-> project(s1[i], a_orth)]
        shape2_projections == [i \in 1..Len(s2) |-> project(s2[i], a_orth)]
        shape1_min == fold_min(pos(F64_MAX, F64_MAX), shape1_projections)
        shape1_max == fold_max(pos(F64_MIN, F64_MIN), shape1_projections)
        shape2_min == fold_min(pos(F64_MAX, F64_MAX), shape2_projections)
        shape2_max == fold_max(pos(F64_MIN, F64_MIN), shape2_projections)
    IN  /\ FGe(shape1_max.x, shape2_min.x) /\ FGe(shape2_max.x, shape1_min.x)
        /\ FGe(shape1_max.y, shape2_min.y) /\ FGe(shape2_max.y, shape1_min.y)

\* TRUE iff NO edge normal of s1 separates the shapes (circular windows)
check_for_separating_axis(s1, s2) ==
    \A i \in 1..Len(s1) : axis_overlap(s1, s2, s1[i], s1[(i % Len(s1)) + 1])

\* collided with the second pass left out
collided_one_pass(s1, s2) == check_for_separating_axis(s1, s2)

collided(s1, s2) ==
    check_for_separating_axis(s1, s2) /\ check_for_separating_axis(s2, s1)

(***************************************************************************)
(* ConvexBody                                                              *)
(***************************************************************************)
still_body(m, mesh) ==
    [mass |-> m, mesh |-> mesh,
     acceleration |-> v(ZERO, ZERO), velocity |-> v(ZERO, ZERO),
     fixed |-> FALSE, report_collision |-> FALSE]

fixed_body(mesh) ==
    [mass |-> ZERO, mesh |-> mesh,
     acceleration |-> v(ZERO, ZERO), velocity |-> v(ZERO, ZERO),
     fixed |-> TRUE, report_collision |-> FALSE]

apply_force(body, fx, fy) ==
    [body EXCEPT !.acceleration =
        v(FAdd(@.x, FDiv(fx, body.mass)), FAdd(@.y, FDiv(fy, body.mass)))]

\* set_resulting_force with += in place of =
set_resulting_force_accumulating(body, fx, fy) ==
    [body EXCEPT !.acceleration =
        v(FAdd(@.x, FDiv(fx, body.mass)), FAdd(@.y, FDiv(fy, body.mass)))]

set_resulting_force(body, fx, fy) ==
    [body EXCEPT !.acceleration = v(FDiv(fx, body.mass), FDiv(fy, body.mass))]

report_collision(body) == [body EXCEPT !.report_collision = TRUE]

(***************************************************************************)
(* Engine                                                                  *)
(***************************************************************************)
\* update_body_position with the displacement dt * v1 of explicit Euler
update_body_position_euler(body, g, dt) ==
    LET ax == body.acceleration.x
        ay == FSub(body.acceleration.y, g)
        vx == FAdd(body.velocity.x, FMul(ax, dt))
        vy == FAdd(body.velocity.y, FMul(ay, dt))
        sx == FMul(dt, vx)
        sy == FMul(dt, vy)
    IN  [body EXCEPT
            !.velocity = v(vx, vy),
            !.mesh = [i \in 1..Len(body.mesh) |->
                        pos(FAdd(body.mesh[i].x, sx), FAdd(body.mesh[i].y, sy))]]

\* the body after update_body_position (its boolean result is discarded by
\* tick and is not modelled)
update_body_position(body, g, dt) ==
    LET ax == body.acceleration.x
        ay == FSub(body.acceleration.y, g)
        vx == FAdd(body.velocity.x, FMul(ax, dt))
        vy == FAdd(body.velocity.y, FMul(ay, dt))
        sx == FMul(FDiv(dt, R(2, 1)), FAdd(vx, body.velocity.x))
        sy == FMul(FDiv(dt, R(2, 1)), FAdd(vy, body.velocity.y))
    IN  [body EXCEPT
            !.velocity = v(vx, vy),
            !.mesh = [i \in 1..Len(body.mesh) |->
                        pos(FAdd(body.mesh[i].x, sx), FAdd(body.mesh[i].y, sy))]]

\* tick with a collision response: a body that is in a pair of the pair set
\* after the move is stopped
tick_bodies_responding(bs, g, dt) ==
    LET moved == [i \in 1..Len(bs) |-> update_body_position(bs[i], g, dt)]
        hit == {i \in 1..Len(bs) : \E j \in 1..Len(bs) :
                  /\ i # j
                  /\ ~check_for_separating_axis(moved[i].mesh, moved[j].mesh)}
    IN  [i \in 1..Len(bs) |->
            IF i \in hit THEN [moved[i] EXCEPT !.velocity = v(ZERO, ZERO)]
            ELSE moved[i]]

\* first statement of tick: every body of the sequence is updated
tick_bodies(bs, g, dt) ==
    [i \in 1..Len(bs) |-> update_body_position(bs[i], g, dt)]

\* second statement of tick: the local `collisions`, as pairs of indices into
\* the body sequence.  Two references have the same address iff they have the
\* same index.
tick_collisions(bs) ==
    {pair \in (1..Len(bs)) \X (1..Len(bs)) :
        /\ pair[1] # pair[2]
        /\ ~check_for_separating_axis(bs[pair[1]].mesh, bs[pair[2]].mesh)}

(***************************************************************************)
(* Terrain                                                                 *)
(***************************************************************************)
\* partition_terrain over circular windows (the last point paired with the
\* first)
partition_terrain_circular(t) ==
    [i \in 1..Len(t) |->
        LET p1 == t[i]
            p2 == t[(i % Len(t)) + 1]
        IN  <<p1, p2,
              pos(p2.x, FSub(p2.y, R(10, 1))),
              pos(p1.x, FSub(p1.y, R(10, 1)))>>]

\* tuple_windows: one quadrilateral per pair of consecutive points
partition_terrain(t) ==
    [i \in 1..(IF Len(t) = 0 THEN 0 ELSE Len(t) - 1) |->
        LET p1 == t[i]
            p2 == t[i + 1]
        IN  <<p1, p2,
              pos(p2.x, FSub(p2.y, R(10, 1))),
              pos(p1.x, FSub(p1.y, R(10, 1)))>>]

(***************************************************************************)
(* Bounds and input sets                                                   *)
(***************************************************************************)
GridMax == 2

\* integer grid the triangles are drawn from: GridMax + 1 columns, 3 rows
GridPoints == (0..GridMax) \X (0..2)

\* orientation of the integer points o, a, b
Cross(o, a, b) ==
    (a[1] - o[1]) * (b[2] - o[2]) - (a[2] - o[2]) * (b[1] - o[1])

Before(p, q) == p[1] < q[1] \/ (p[1] = q[1] /\ p[2] < q[2])

\* the non-degenerate triangles of the grid, one vertex order per triangle
\* (both windings occur)
Triangles ==
    {<<ipos(t[1][1], t[1][2]), ipos(t[2][1], t[2][2]), ipos(t[3][1], t[3][2])>> :
        t \in {u \in GridPoints \X GridPoints \X GridPoints :
                 /\ Before(u[1], u[2])
                 /\ Before(u[2], u[3])
                 /\ Cross(u[1], u[2], u[3]) # 0}}

MaxBodies == 2

MaxOps == 3

MaxEvents == 3

MaxTerrain == 4

TerrainSamples == 3

\* gravitational accelerations handed to Engine::create
GaSet == {ZERO, R(10, 1)}

\* time steps handed to tick
Dts == {R(1, 2), R(1, 1)}

\* masses handed to still_body
Masses == {R(10, 1)}

\* forces handed to apply_force and set_resulting_force
Forces == {<<ZERO, R(100, 1)>>, <<R(-100, 1), R(-100, 1)>>}

\* meshes handed to still_body and fixed_body: MeshC is MeshA moved down by 5
MeshA == <<ipos(0, 0), ipos(2, 0), ipos(0, 2)>>
MeshC == <<ipos(0, -5), ipos(2, -5), ipos(0, -3)>>
Meshes == {MeshA, MeshC}

\* bodies handed to add_body; the still body built on MeshA is the one
\* marked with report_collision()
NewBodies ==
    {report_collision(still_body(m, MeshA)) : m \in Masses}
        \cup {still_body(m, MeshC) : m \in Masses}
        \cup {fixed_body(mesh) : mesh \in Meshes}

\* points handed to partition_terrain
TerrainPoints == {ipos(0, 5), ipos(1, 6), ipos(2, 4), ipos(3, 4)}

RECURSIVE SeqsUpTo(_, _)
SeqsUpTo(S, n) ==
    IF n = 0 THEN {<<>>}
    ELSE LET shorter == SeqsUpTo(S, n - 1)
         IN  shorter \cup {Append(q, e) : q \in {r \in shorter : Len(r) = n - 1}, e \in S}

\* the axis-aligned rectangles of the grid, in the vertex order of
\* test::collision_two_rectangles
Rectangles ==
    {<<ipos(c[1][1], c[2][2]), ipos(c[2][1], c[2][2]),
       ipos(c[2][1], c[1][2]), ipos(c[1][1], c[1][2])>> :
        c \in {d \in GridPoints \X GridPoints : d[1][1] < d[2][1] /\ d[1][2] < d[2][2]}}

Shapes == Triangles \cup Rectangles

(***************************************************************************)
(* Specification SpecSAT: collided applied to two convex polygons of the   *)
(* grid                                                                    *)
(***************************************************************************)
IdleEngine ==
    /\ bodies = <<>> /\ ga = ZERO /\ collisions = {} /\ hist = <<>>
    /\ nticks = 0 /\ nforces = 0 /\ twin = <<>> /\ held = {}

IdleSAT == shape1 = <<>> /\ shape2 = <<>> /\ result = FALSE

IdleTerrain == terrain = <<>> /\ polygons = <<>>

InitSAT ==
    /\ shape1 \in Shapes
    /\ shape2 \in Shapes
    /\ result = FALSE
    /\ pc = "ready"
    /\ IdleEngine
    /\ IdleTerrain

\* the caller evaluates collided(shape1, shape2)
Collide ==
    /\ pc = "ready"
    /\ result' = collided(shape1, shape2)
    /\ pc' = "done"
    /\ UNCHANGED <<shape1, shape2, engineVars, terrainVars>>

NextSAT == Collide

SpecSAT == InitSAT /\ [][NextSAT]_vars

(***************************************************************************)
(* Specification Spec: an engine driven as the tests and main drive it:    *)
(* the bodies are added first, then the engine is ticked and forces are    *)
(* applied to get_bodies_mut().first_mut().                                *)
(*                                                                         *)
(* hist[i] records, for body i: the mesh it was constructed with, the      *)
(* number n of ticks it has been through, the dt of the last of them,      *)
(* whether all of them used the same dt with no force call after the       *)
(* first (steady), the last force call made on it, and whether            *)
(* apply_force was ever called on it (applied).                            *)
(* twin is a second engine that holds only a copy of the first body and    *)
(* sees the same ticks and the same force calls on that body.              *)
(***************************************************************************)
NoForce == [op |-> "none", fx |-> ZERO, fy |-> ZERO]

NewHist(b) ==
    [mesh0 |-> b.mesh, n |-> 0, dt |-> ZERO, steady |-> TRUE, last |-> NoForce,
     applied |-> FALSE]

Init ==
    /\ bodies = <<>>
    /\ ga \in GaSet
    /\ collisions = {}
    /\ hist = <<>>
    /\ nticks = 0
    /\ nforces = 0
    /\ twin = <<>>
    /\ held = {}
    /\ pc = "ready"
    /\ IdleSAT
    /\ IdleTerrain

AddBody(b) ==
    /\ Len(bodies) < MaxBodies
    /\ nticks = 0
    /\ nforces = 0
    /\ bodies' = Append(bodies, b)
    /\ hist' = Append(hist, NewHist(b))
    /\ twin' = IF bodies = <<>> THEN <<b>> ELSE twin
    /\ UNCHANGED <<ga, collisions, nticks, nforces, held, satVars, terrainVars, pc>>

\* engine.tick(dt), on both engines
TickStep(dt) ==
    /\ bodies' = tick_bodies(bodies, ga, dt)
    /\ collisions' = tick_collisions(bodies')
    /\ twin' = tick_bodies(twin, ga, dt)
    /\ hist' = [i \in 1..Len(hist) |->
                  [hist[i] EXCEPT !.n = @ + 1, !.dt = dt,
                                  !.steady = @ /\ (hist[i].n = 0 \/ hist[i].dt = dt)]]
    /\ nticks' = nticks + 1
    /\ UNCHANGED <<ga, nforces, held, satVars, terrainVars, pc>>

Tick(dt) ==
    /\ nticks + nforces < MaxOps
    /\ TickStep(dt)

ApplyForce(f) ==
    LET i == 1 IN
    /\ bodies # <<>>
    /\ nticks + nforces < MaxOps
    /\ bodies' = [bodies EXCEPT ![i] = apply_force(@, f[1], f[2])]
    /\ twin' = [twin EXCEPT ![1] = apply_force(@, f[1], f[2])]
    /\ hist' = [hist EXCEPT ![i].steady = @ /\ hist[i].n = 0,
                            ![i].last = [op |-> "apply", fx |-> f[1], fy |-> f[2]],
                            ![i].applied = TRUE]
    /\ nforces' = nforces + 1
    /\ UNCHANGED <<ga, collisions, nticks, held, satVars, terrainVars, pc>>

SetResultingForce(f) ==
    LET i == 1 IN
    /\ bodies # <<>>
    /\ nticks + nforces < MaxOps
    /\ bodies' = [bodies EXCEPT ![i] = set_resulting_force(@, f[1], f[2])]
    /\ twin' = [twin EXCEPT ![1] = set_resulting_force(@, f[1], f[2])]
    /\ hist' = [hist EXCEPT ![i].steady = @ /\ hist[i].n = 0,
                            ![i].last = [op |-> "set", fx |-> f[1], fy |-> f[2]]]
    /\ nforces' = nforces + 1
    /\ UNCHANGED <<ga, collisions, nticks, held, satVars, terrainVars, pc>>

Next ==
    \/ \E b \in NewBodies : AddBody(b)
    \/ \E dt \in Dts : Tick(dt)
    \/ \E f \in Forces : ApplyForce(f)
    \/ \E f \in Forces : SetResultingForce(f)

Spec == Init /\ [][Next]_vars

(***************************************************************************)
(* Specification SpecMain: the event loop of main.  The engine holds the   *)
(* lander and one fixed body per terrain quadrilateral; every event is an  *)
(* update (tick) or a button event.  held is the set of directional keys   *)
(* that are down: a key is pressed only when up and released only when     *)
(* down.  The terrain has TerrainSamples samples (21 in main) spread over  *)
(* the same width, with heights from Heights.                              *)
(***************************************************************************)
Heights == {R(2, 1), R(12, 1)}

\* update_args.dt of the update events
UpdateDts == {R(2, 1), R(4, 1)}

generate_terrain ==
    LET left_limit == ZERO
        right_limit == R(100, 1)
        step == FDiv(right_limit, R(TerrainSamples - 1, 1))
        x(i) == FAdd(left_limit, FMul(R(i - 1, 1), step))
    IN  {[i \in 1..TerrainSamples |->
            pos(x(i), IF i = site + 1 THEN h[site] ELSE h[i])] :
         h \in [1..TerrainSamples -> Heights], site \in 1..(TerrainSamples - 1)}

lander ==
    report_collision(
        still_body(R(10, 1), <<ipos(49, 100), ipos(51, 100), ipos(51, 98), ipos(49, 98)>>))

Buttons == {"Down", "Right", "Left", "Other"}

Directional == {"Down", "Right", "Left"}

ButtonStates == {"Press", "Release"}

\* the arm of `match button_args` taken for (button, state): the force call
\* it makes on the first body
button_force(button, state) ==
    CASE button = "Down" ->
           IF state = "Press" THEN [op |-> "apply", fx |-> ZERO, fy |-> R(100, 1)]
           ELSE [op |-> "apply", fx |-> ZERO, fy |-> R(-100, 1)]
      [] button = "Right" ->
           IF state = "Press" THEN [op |-> "apply", fx |-> R(-100, 1), fy |-> ZERO]
           ELSE [op |-> "apply", fx |-> R(100, 1), fy |-> ZERO]
      [] button = "Left" ->
           IF state = "Press" THEN [op |-> "apply", fx |-> R(100, 1), fy |-> ZERO]
           ELSE [op |-> "apply", fx |-> R(-100, 1), fy |-> ZERO]
      [] OTHER -> [op |-> "set", fx |-> ZERO, fy |-> ZERO]

do_force(body, call) ==
    IF call.op = "set" THEN set_resulting_force(body, call.fx, call.fy)
    ELSE apply_force(body, call.fx, call.fy)

InitMain ==
    /\ terrain \in generate_terrain
    /\ polygons = partition_terrain(terrain)
    /\ bodies = <<lander>> \o [i \in 1..Len(polygons) |-> fixed_body(polygons[i])]
    /\ hist = [i \in 1..Len(bodies) |-> NewHist(bodies[i])]
    /\ twin = <<lander>>
    /\ ga = R(13, 8)
    /\ collisions = {}
    /\ nticks = 0
    /\ nforces = 0
    /\ held = {}
    /\ pc = "ready"
    /\ IdleSAT

UpdateEvent(dt) ==
    /\ nticks + nforces < MaxEvents
    /\ TickStep(dt)

ButtonEvent(button, state) ==
    /\ nticks + nforces < MaxEvents
    /\ button \in Directional /\ state = "Press" => button \notin held
    /\ button \in Directional /\ state = "Release" => button \in held
    /\ bodies' = [bodies EXCEPT ![1] = do_force(@, button_force(button, state))]
    /\ twin' = [twin EXCEPT ![1] = do_force(@, button_force(button, state))]
    /\ held' = IF button \notin Directional THEN held
               ELSE IF state = "Press" THEN held \cup {button}
               ELSE held \ {button}
    /\ hist' = [hist EXCEPT ![1].steady = @ /\ hist[1].n = 0,
                            ![1].last = button_force(button, state),
                            ![1].applied = @ \/ button_force(button, state).op = "apply"]
    /\ nforces' = nforces + 1
    /\ UNCHANGED <<ga, collisions, nticks, satVars, terrainVars, pc>>

NextMain ==
    \/ \E dt \in UpdateDts : UpdateEvent(dt)
    \/ \E button \in Buttons, state \in ButtonStates : ButtonEvent(button, state)

SpecMain == InitMain /\ [][NextMain]_vars

(***************************************************************************)
(* Specification SpecTerrain: partition_terrain applied to a terrain of at *)
(* most MaxTerrain points                                                  *)
(***************************************************************************)
InitTerrain ==
    /\ terrain \in SeqsUpTo(TerrainPoints, MaxTerrain)
    /\ polygons = <<>>
    /\ pc = "ready"
    /\ IdleEngine
    /\ IdleSAT

Partition ==
    /\ pc = "ready"
    /\ polygons' = partition_terrain(terrain)
    /\ pc' = "done"
    /\ UNCHANGED <<terrain, engineVars, satVars>>

NextTerrain == Partition

SpecTerrain == InitTerrain /\ [][NextTerrain]_vars

(***************************************************************************)
(* Properties                                                              *)
(***************************************************************************)
Bodies == 1..Len(bodies)

\* C1: a body built by fixed_body keeps the mesh it was constructed with and
\* its zero velocity, whatever add_body and tick calls are made.
C1_FixedBodyNeverMoves ==
    \A i \in Bodies :
        bodies[i].fixed =>
            /\ bodies[i].mesh = hist[i].mesh0
            /\ bodies[i].velocity = v(ZERO, ZERO)

\* C2: the pair set computed by a tick is exactly the set of ordered pairs
\* of distinct bodies whose meshes, after the move, satisfy collided.
C2_PairSetIsOverlap ==
    [][nticks' = nticks + 1 =>
          collisions' =
              {pair \in (1..Len(bodies')) \X (1..Len(bodies')) :
                  /\ pair[1] # pair[2]
                  /\ collided(bodies'[pair[1]].mesh, bodies'[pair[2]].mesh)}]_vars

\* C3: a fixed body's acceleration stays (0, 0) under any sequence of
\* apply_force and set_resulting_force calls.
C3_FixedForceNoOp ==
    \A i \in Bodies :
        bodies[i].fixed => bodies[i].acceleration = v(ZERO, ZERO)

\* C4: whenever no directional key is held, the acceleration applied to the
\* player body is (0, 0).
C4_NoKeyNoForce ==
    held = {} => bodies[1].acceleration = v(ZERO, ZERO)

\* C5: a still body whose acceleration a was set before its first tick has,
\* after n ticks of the same dt, velocity n*dt*(ax, ay - ga) and every
\* vertex displaced by ((n*dt)^2 / 2)*(ax, ay - ga).
C5_TrapezoidExact ==
    \A i \in Bodies :
        (~bodies[i].fixed /\ hist[i].steady) =>
            LET t == FMul(R(hist[i].n, 1), hist[i].dt)
                half_t2 == FDiv(FMul(t, t), R(2, 1))
                ax == bodies[i].acceleration.x
                ay == FSub(bodies[i].acceleration.y, ga)
            IN  /\ bodies[i].velocity = v(FMul(t, ax), FMul(t, ay))
                /\ \A k \in 1..Len(bodies[i].mesh) :
                      bodies[i].mesh[k] =
                          pos(FAdd(hist[i].mesh0[k].x, FMul(half_t2, ax)),
                              FAdd(hist[i].mesh0[k].y, FMul(half_t2, ay)))

\* mass 10, ga = 10, dt = 1, no force: 20 below the start after two ticks
C5_Witness ==
    \E i \in Bodies :
        /\ ~bodies[i].fixed /\ hist[i].steady
        /\ hist[i].n = 2 /\ hist[i].dt = R(1, 1)
        /\ ga = R(10, 1) /\ bodies[i].mass = R(10, 1)
        /\ bodies[i].acceleration = v(ZERO, ZERO)
        /\ bodies[i].mesh[1].y = FSub(hist[i].mesh0[1].y, R(20, 1))

\* displacement of one tick along one axis: (dt/2)*((v0 + a*dt) + v0)
C6_Displacement(dt, v0, a) ==
    FMul(FDiv(dt, R(2, 1)), FAdd(FAdd(v0, FMul(a, dt)), v0))

\* b0, b1: a body before and after a step; h1: its history after the step
C6_Body(b0, b1, h1, ticked) ==
    (~b1.fixed /\ h1.last.op = "set") =>
        /\ b1.acceleration =
              v(FDiv(h1.last.fx, b1.mass), FDiv(h1.last.fy, b1.mass))
        /\ ticked =>
              \A k \in 1..Len(b1.mesh) :
                  b1.mesh[k] =
                      pos(FAdd(b0.mesh[k].x,
                               C6_Displacement(h1.dt, b0.velocity.x,
                                               FDiv(h1.last.fx, b1.mass))),
                          FAdd(b0.mesh[k].y,
                               C6_Displacement(h1.dt, b0.velocity.y,
                                               FSub(FDiv(h1.last.fy, b1.mass), ga))))

\* C6: for a non-fixed body whose last force call is
\* set_resulting_force(fx, fy), the acceleration is (fx/mass, fy/mass), and
\* a tick displaces every vertex by (dt/2)*((v0 + a*dt) + v0) with
\* a = (fx/mass, fy/mass - ga), whatever apply_force calls came before.
C6_SetOverwrites ==
    [][\A i \in Bodies :
          C6_Body(bodies[i], bodies'[i], hist'[i], nticks' = nticks + 1)]_vars

\* apply_force, then set_resulting_force, then one tick
C6_Witness ==
    \E i \in Bodies :
        /\ ~bodies[i].fixed
        /\ hist[i].applied /\ hist[i].last.op = "set"
        /\ hist[i].steady /\ hist[i].n = 1
        /\ bodies[i].mesh # hist[i].mesh0

\* C7: the pair set computed by a tick holds no pair of a body with itself,
\* holds both ordered pairs of two distinct bodies with identical mesh and
\* state, and is empty when the engine holds zero or one body.
C7_NoSelfCollision ==
    [][nticks' = nticks + 1 =>
          /\ \A pair \in collisions' : pair[1] # pair[2]
          /\ \A i, j \in 1..Len(bodies') :
                (i # j /\ bodies'[i] = bodies'[j]) => <<i, j>> \in collisions'
          /\ Len(bodies') <= 1 => collisions' = {}]_vars

\* C8: partition_terrain maps n >= 1 points to the n-1 quadrilaterals
\* [p_k, p_k+1, (p_k+1.x, p_k+1.y - 10), (p_k.x, p_k.y - 10)] in input
\* order, and 0 or 1 points to none.
C8_PartitionTerrain ==
    pc = "done" =>
        /\ Len(polygons) = (IF Len(terrain) >= 1 THEN Len(terrain) - 1 ELSE 0)
        /\ \A k \in 1..Len(polygons) :
              polygons[k] =
                  <<terrain[k], terrain[k + 1],
                    ipos(terrain[k + 1].x.n, terrain[k + 1].y.n - 10),
                    ipos(terrain[k].x.n, terrain[k].y.n - 10)>>

\* the terrain of partition_terrain_test
C8_Witness ==
    /\ pc = "done"
    /\ terrain = <<ipos(0, 5), ipos(1, 6), ipos(2, 4), ipos(3, 4)>>
    /\ Len(polygons) = 3
    /\ polygons[3] = <<ipos(2, 4), ipos(3, 4), ipos(3, -6), ipos(2, -6)>>

\* geometric intersection of two convex polygons with integer vertices
Pt(p) == <<p.x.n, p.y.n>>

Min2(a, b) == IF a < b THEN a ELSE b

Max2(a, b) == IF a < b THEN b ELSE a

OnSegment(a, b, p) ==
    /\ Cross(a, b, p) = 0
    /\ Min2(a[1], b[1]) <= p[1] /\ p[1] <= Max2(a[1], b[1])
    /\ Min2(a[2], b[2]) <= p[2] /\ p[2] <= Max2(a[2], b[2])

SegmentsMeet(a, b, c, d) ==
    \/ /\ Sgn(Cross(c, d, a)) * Sgn(Cross(c, d, b)) < 0
       /\ Sgn(Cross(a, b, c)) * Sgn(Cross(a, b, d)) < 0
    \/ OnSegment(c, d, a) \/ OnSegment(c, d, b)
    \/ OnSegment(a, b, c) \/ OnSegment(a, b, d)

Vertex(T, i) == Pt(T[((i - 1) % Len(T)) + 1])

InPolygon(T, p) ==
    \/ \A i \in 1..Len(T) : Cross(Vertex(T, i), Vertex(T, i + 1), p) >= 0
    \/ \A i \in 1..Len(T) : Cross(Vertex(T, i), Vertex(T, i + 1), p) <= 0

SharePoint(A, B) ==
    \/ \E i \in 1..Len(A) : InPolygon(B, Vertex(A, i))
    \/ \E i \in 1..Len(B) : InPolygon(A, Vertex(B, i))
    \/ \E i \in 1..Len(A), j \in 1..Len(B) :
          SegmentsMeet(Vertex(A, i), Vertex(A, i + 1), Vertex(B, j), Vertex(B, j + 1))

C10_TwinAgree == bodies # <<>> => twin[1] = bodies[1]

C10_TickKeeps ==
    nticks' = nticks + 1 =>
        /\ Len(bodies') = Len(bodies)
        /\ \A i \in Bodies :
              /\ bodies'[i].mass = bodies[i].mass
              /\ bodies'[i].acceleration = bodies[i].acceleration
              /\ bodies'[i].fixed = bodies[i].fixed
              /\ bodies'[i].report_collision = bodies[i].report_collision

\* C10: the first body of the engine always equals its copy in the engine
\* that holds no other body (same ticks, same force calls), and a tick
\* changes no body's mass, acceleration, fixed flag, report_collision flag
\* or index.
C10_NoCollisionResponse == []C10_TwinAgree /\ [][C10_TickKeeps]_vars

\* the first body has moved and overlaps the second one
C10_Witness ==
    /\ Len(bodies) = 2
    /\ nticks >= 1
    /\ bodies[1].report_collision
    /\ bodies[1].mesh # hist[1].mesh0
    /\ collided(bodies[1].mesh, bodies[2].mesh)

====
